---------------------------- MODULE Spec2Model ----------------------------
(***************************************************************************)
(* Model of the flat-file table engine (table.py) and of the statement     *)
(* factory and statement classes (statement.py).                           *)
(*                                                                         *)
(* A table is one CSV file.  A file is modelled as the sequence of its     *)
(* lines, every line being the list of its cells together with the line    *)
(* terminator it was written with.  Everything printed by an operation is  *)
(* collected in out; an exception that ends an operation is kept in err.   *)
(***************************************************************************)
EXTENDS Integers, Sequences, FiniteSets, TLC

VARIABLES files, out, err, op, cmd, stmt, gtn

vars == <<files, out, err, op, cmd, stmt, gtn>>

---------------------------------------------------------------------------
(* Bounds of the model *)

MaxRows == 2
MaxJoinRows == 2
MaxTokens == 3

---------------------------------------------------------------------------
(* Small universes the inputs are drawn from *)

TableNames == {"t", "u"}

Values == {"1", "2", "Ann"}

\* the header cells, "<name> <type>", a table is created with
FieldLists == {<<"id int">>, <<"id int", "name varchar">>}

AlterFields == {"name varchar"}

\* the numbers of values an INSERT is tried with
InsertArities == {1, 2}

\* the value row.append(None) puts in a row before it is written
NoneValue == "<None>"

Range(s) == {s[i] : i \in DOMAIN s}

RECURSIVE SeqsUpTo(_, _)
SeqsUpTo(S, n) ==
    IF n = 0 THEN {<<>>}
    ELSE LET shorter == SeqsUpTo(S, n - 1)
         IN  shorter \cup {Append(s, x) : s \in {q \in shorter : Len(q) = n - 1}, x \in S}

SeqsOfLen(S, n) == {s \in SeqsUpTo(S, n) : Len(s) = n}

---------------------------------------------------------------------------
(* str.split() on a header cell, and int() on a value *)

Split0(field) ==
    CASE field = "id int" -> "id"
      [] field = "name varchar" -> "name"
      [] field = "rid int" -> "rid"
      [] OTHER -> field

Split1(field) ==
    CASE field = "id int" -> "int"
      [] field = "name varchar" -> "varchar"
      [] field = "rid int" -> "int"
      [] OTHER -> ""

IntLiterals == {"1", "2"}

IntOf(s) == IF s = "1" THEN 1 ELSE IF s = "2" THEN 2 ELSE 0

NumericTypes == {"int", "float"}

---------------------------------------------------------------------------
(* The file system: os.path.exists, csv.reader, csv.writer *)

NoFile == [exists |-> FALSE, lines |-> <<>>]

Exists(fs, name) == fs[name].exists

\* csv.reader: the cells of every line, whatever its terminator
ReadRows(fs, name) == [i \in DOMAIN fs[name].lines |-> fs[name].lines[i].row]

\* csv.writer writes None as the empty string
CsvCell(v) == IF v = NoneValue THEN "" ELSE v

CsvLine(row, eol) == [row |-> [i \in DOMAIN row |-> CsvCell(row[i])], eol |-> eol]

\* open(name, 'w') and csv.writer(lineterminator='\n').writerows(rows)
WriteRows(rows) ==
    [exists |-> TRUE, lines |-> [i \in DOMAIN rows |-> CsvLine(rows[i], "LF")]]

\* the file opened with 'w' instead of 'a'
AppendRowTruncating(file, values) ==
    [exists |-> TRUE, lines |-> <<CsvLine(values, "CRLF")>>]

\* open(name, 'a') and csv.writer(csvfile).writerow(values): default terminator
AppendRow(file, values) ==
    [exists |-> TRUE, lines |-> Append(file.lines, CsvLine(values, "CRLF"))]

GetFieldNames(fs, name) ==
    LET header == ReadRows(fs, name)[1]
    IN  [i \in DOMAIN header |-> Split0(header[i])]

GetFieldTypes(fs, name) ==
    LET header == ReadRows(fs, name)[1]
    IN  [i \in DOMAIN header |-> Split1(header[i])]

---------------------------------------------------------------------------
(* What an operation prints *)

Line(cells) == [kind |-> "line", cells |-> cells, n |-> 0, d |-> 0]

Status(msg, n) == [kind |-> "status", cells |-> <<msg>>, n |-> n, d |-> 0]

IntScalar(n) == [kind |-> "int", cells |-> <<>>, n |-> n, d |-> 0]

\* a float, kept as the quotient it was computed from
FloatScalar(n, d) == [kind |-> "float", cells |-> <<>>, n |-> n, d |-> d]

Result(fs, o, e) == [files |-> fs, out |-> o, err |-> e]

---------------------------------------------------------------------------
(* Record: conditions and projections *)

NoCond == [f |-> "", lq |-> "", cmp |-> "", rhs |-> "", rq |-> "", rhsField |-> FALSE]

Cond(f, cmp, lit) == [f |-> f, lq |-> "", cmp |-> cmp, rhs |-> lit, rq |-> "", rhsField |-> FALSE]

FieldCond(lq, f, cmp, rq, g) == [f |-> f, lq |-> lq, cmp |-> cmp, rhs |-> g, rq |-> rq, rhsField |-> TRUE]

IndexOf(names, f) == CHOOSE i \in DOMAIN names : names[i] = f /\ \A j \in 1..(i - 1) : names[j] # f

\* the fields a condition names are fields of the record, none still qualified
CondApplies(names, cond) ==
    \/ cond = NoCond
    \/ /\ cond.lq = "" /\ cond.f \in Range(names)
       /\ cond.rhsField => (cond.rq = "" /\ cond.rhs \in Range(names))

Compare(cmp, a, b) ==
    CASE cmp = "=" -> a = b
      [] cmp = "!=" -> a # b
      [] OTHER -> FALSE

CompareInt(cmp, a, b) ==
    CASE cmp = "=" -> a = b
      [] cmp = "!=" -> a # b
      [] cmp = ">" -> a > b
      [] cmp = "<" -> a < b
      [] OTHER -> FALSE

\* "T", "F", or "E" when a numeric field holds a value that is not a number
Satisfies(names, types, values, cond) ==
    IF cond = NoCond THEN "T"
    ELSE LET i == IndexOf(names, cond.f)
             a == values[i]
             b == IF cond.rhsField THEN values[IndexOf(names, cond.rhs)] ELSE cond.rhs
         IN  IF types[i] \in NumericTypes
             THEN IF a \in IntLiterals /\ b \in IntLiterals
                  THEN IF CompareInt(cond.cmp, IntOf(a), IntOf(b)) THEN "T" ELSE "F"
                  ELSE "E"
             ELSE IF Compare(cond.cmp, a, b) THEN "T" ELSE "F"

Plain(name) == [func |-> "", arg |-> name]

Star == <<Plain("*")>>

\* get_values(): every value; get_values(list): the named ones, as listed
GetValues(names, values, sel) ==
    IF sel = Star THEN values
    ELSE [k \in DOMAIN sel |-> values[IndexOf(names, sel[k].arg)]]

SetValue(names, values, f, v) == [values EXCEPT ![IndexOf(names, f)] = v]

SelApplies(names, sel) ==
    sel = Star \/ \A k \in DOMAIN sel : sel[k].func = "" /\ sel[k].arg \in Range(names)

---------------------------------------------------------------------------
(* Table: the operations of table.py; each returns the file system, the    *)
(* printed lines and the exception (if any) it ends with                   *)

DataRows(rows) == SubSeq(rows, 2, Len(rows))

MapRows(rows, F(_)) == [i \in DOMAIN rows |-> F(rows[i])]

AnyRowFails(names, types, rows, cond) ==
    \E i \in DOMAIN rows : Satisfies(names, types, rows[i], cond) = "E"

\* the rows already stored left as they are
TableAlterHeaderOnly(fs, name, new_field) ==
    IF ~Exists(fs, name) THEN Result(fs, <<>>, "does not exist")
    ELSE LET rows == ReadRows(fs, name)
             altered == <<Append(rows[1], new_field)>> \o DataRows(rows)
         IN  Result([fs EXCEPT ![name] = WriteRows(altered)],
                    <<Status("Table modified.", 0)>>, "")

TableAlter(fs, name, new_field) ==
    IF ~Exists(fs, name) THEN Result(fs, <<>>, "does not exist")
    ELSE LET rows == ReadRows(fs, name)
             headers == Append(rows[1], new_field)
             altered == <<headers>> \o MapRows(DataRows(rows), LAMBDA r : Append(r, NoneValue))
         IN  Result([fs EXCEPT ![name] = WriteRows(altered)],
                    <<Status("Table modified.", 0)>>, "")

\* the file opened for writing before its existence is checked
TableCreateTruncating(fs, name, fields) ==
    IF Exists(fs, name)
    THEN Result([fs EXCEPT ![name] = WriteRows(<<fields>>)], <<>>, "already exists")
    ELSE Result([fs EXCEPT ![name] = WriteRows(<<fields>>)],
                <<Status("Table created.", 0)>>, "")

TableCreate(fs, name, fields) ==
    IF Exists(fs, name) THEN Result(fs, <<>>, "already exists")
    ELSE Result([fs EXCEPT ![name] = WriteRows(<<fields>>)],
                <<Status("Table created.", 0)>>, "")

CountReport(count, one, many) == Status(IF count = 1 THEN one ELSE many, count)

\* the rows a DELETE keeps: those whose record does not satisfy the condition
RetainedSatisfying(names, types, data, condition) ==
    SelectSeq(data, LAMBDA r : Satisfies(names, types, r, condition) = "T")

Retained(names, types, data, condition) ==
    SelectSeq(data, LAMBDA r : Satisfies(names, types, r, condition) # "T")

TableDelete(fs, name, condition) ==
    IF ~Exists(fs, name) THEN Result(fs, <<>>, "does not exist")
    ELSE LET field_names == GetFieldNames(fs, name)
             field_types == GetFieldTypes(fs, name)
             rows == ReadRows(fs, name)
             data == DataRows(rows)
             kept == Retained(field_names, field_types, data, condition)
             updated == <<rows[1]>> \o
                        MapRows(kept, LAMBDA r : GetValues(field_names, r, Star))
             count_deleted == Len(data) - Len(kept)
         IN  IF AnyRowFails(field_names, field_types, data, condition)
             THEN Result(fs, <<>>, "record error")
             ELSE Result([fs EXCEPT ![name] = WriteRows(updated)],
                         <<CountReport(count_deleted, "record deleted.", "records deleted.")>>,
                         "")

TableDrop(fs, name) ==
    IF ~Exists(fs, name) THEN Result(fs, <<>>, "does not exist")
    ELSE Result([fs EXCEPT ![name] = NoFile], <<Status("Table deleted.", 0)>>, "")

TableInsert(fs, name, values) ==
    IF ~Exists(fs, name) THEN Result(fs, <<>>, "does not exist")
    ELSE IF Len(GetFieldNames(fs, name)) # Len(values)
         THEN Result(fs, <<>>, "field counts do not match")
         ELSE Result([fs EXCEPT ![name] = AppendRow(fs[name], values)],
                     <<Status("1 new record inserted.", 0)>>, "")

\* an UPDATE that writes back only the rows it modified
TableUpdateModifiedOnly(fs, name, target_field, new_value, condition) ==
    IF ~Exists(fs, name) THEN Result(fs, <<>>, "does not exist")
    ELSE LET field_names == GetFieldNames(fs, name)
             field_types == GetFieldTypes(fs, name)
             rows == ReadRows(fs, name)
             data == DataRows(rows)
             hit(r) == Satisfies(field_names, field_types, r, condition) = "T"
             modified == MapRows(SelectSeq(data, hit), LAMBDA r :
                             SetValue(field_names, r, target_field, new_value))
         IN  IF target_field \notin Range(field_names)
             THEN Result(fs, <<>>, "not in table")
             ELSE IF AnyRowFails(field_names, field_types, data, condition)
                  THEN Result(fs, <<>>, "record error")
                  ELSE Result([fs EXCEPT ![name] = WriteRows(<<rows[1]>> \o modified)],
                              <<CountReport(Len(modified), "record modified.", "records modified.")>>,
                              "")

TableUpdate(fs, name, target_field, new_value, condition) ==
    IF ~Exists(fs, name) THEN Result(fs, <<>>, "does not exist")
    ELSE LET field_names == GetFieldNames(fs, name)
             field_types == GetFieldTypes(fs, name)
             rows == ReadRows(fs, name)
             data == DataRows(rows)
             hit(r) == Satisfies(field_names, field_types, r, condition) = "T"
             updated == <<rows[1]>> \o
                        MapRows(data, LAMBDA r :
                            IF hit(r)
                            THEN GetValues(field_names,
                                     SetValue(field_names, r, target_field, new_value), Star)
                            ELSE GetValues(field_names, r, Star))
             count_modified == Cardinality({i \in DOMAIN data : hit(data[i])})
         IN  IF target_field \notin Range(field_names)
             THEN Result(fs, <<>>, "not in table")
             ELSE IF AnyRowFails(field_names, field_types, data, condition)
                  THEN Result(fs, <<>>, "record error")
                  ELSE Result([fs EXCEPT ![name] = WriteRows(updated)],
                              <<CountReport(count_modified, "record modified.", "records modified.")>>,
                              "")

---------------------------------------------------------------------------
(* SELECT: single table, aggregate, join *)

Echo(entry) == [kind |-> "echo", cells |-> <<entry.func, entry.arg>>, n |-> 0, d |-> 0]

\* str.upper() (and re.I) on the words the model uses
Upper(word) ==
    CASE word \in {"COUNT", "Count", "count"} -> "COUNT"
      [] word \in {"MAX", "Max", "max"} -> "MAX"
      [] word \in {"AVG", "Avg", "avg"} -> "AVG"
      [] word = "create" -> "CREATE"
      [] word = "drop" -> "DROP"
      [] word = "table" -> "TABLE"
      [] word = "database" -> "DATABASE"
      [] word = "use" -> "USE"
      [] word = "select" -> "SELECT"
      [] word = "from" -> "FROM"
      [] OTHER -> word

\* re.search(r'(COUNT|AVG|MAX)\(.*?\)', entry, re.I)
IsAggCall(entry) == Upper(entry.func) \in {"COUNT", "AVG", "MAX"}

RECURSIVE SingleScan(_, _, _, _, _, _)
SingleScan(names, types, data, cond, sel, acc) ==
    IF data = <<>> THEN [out |-> acc, err |-> ""]
    ELSE LET s == Satisfies(names, types, Head(data), cond)
         IN  IF s = "E" THEN [out |-> acc, err |-> "record error"]
             ELSE SingleScan(names, types, Tail(data), cond, sel,
                      IF s = "T"
                      THEN Append(acc, Line(GetValues(names, Head(data), sel)))
                      ELSE acc)

HeaderLine(header, select_clause) ==
    IF select_clause = Star THEN Line(header)
    ELSE Line(SelectSeq(header, LAMBDA h : Plain(Split0(h)) \in Range(select_clause)))

SingleSelect(fs, name, select_clause, where_clause) ==
    IF ~Exists(fs, name) THEN Result(fs, <<>>, "does not exist")
    ELSE LET field_names == GetFieldNames(fs, name)
             field_types == GetFieldTypes(fs, name)
             rows == ReadRows(fs, name)
             scan == SingleScan(field_names, field_types, DataRows(rows), where_clause,
                                select_clause, <<HeaderLine(rows[1], select_clause)>>)
         IN  Result(fs, scan.out, scan.err)

RECURSIVE Sum(_)
Sum(s) == IF s = <<>> THEN 0 ELSE Head(s) + Sum(Tail(s))

MaxOf(s) == CHOOSE m \in Range(s) : \A x \in Range(s) : x <= m

\* an empty table averaged to 0 and its maximum taken as 0
AggResultZeroOnEmpty(agg_type, values) ==
    CASE agg_type = "COUNT" -> [out |-> <<IntScalar(Len(values))>>, err |-> ""]
      [] agg_type = "MAX" ->
            IF values = <<>> THEN [out |-> <<IntScalar(0)>>, err |-> ""]
            ELSE [out |-> <<IntScalar(MaxOf(values))>>, err |-> ""]
      [] agg_type = "AVG" ->
            IF values = <<>> THEN [out |-> <<FloatScalar(0, 1)>>, err |-> ""]
            ELSE [out |-> <<FloatScalar(Sum(values), Len(values))>>, err |-> ""]
      [] OTHER -> [out |-> <<>>, err |-> ""]

AggResult(agg_type, values) ==
    CASE agg_type = "COUNT" -> [out |-> <<IntScalar(Len(values))>>, err |-> ""]
      [] agg_type = "MAX" ->
            IF values = <<>> THEN [out |-> <<>>, err |-> "ValueError"]
            ELSE [out |-> <<IntScalar(MaxOf(values))>>, err |-> ""]
      [] agg_type = "AVG" ->
            IF values = <<>> THEN [out |-> <<>>, err |-> "ZeroDivisionError"]
            ELSE [out |-> <<FloatScalar(Sum(values), Len(values))>>, err |-> ""]
      [] OTHER -> [out |-> <<>>, err |-> ""]

AggSelect(fs, name, select_clause) ==
    IF ~Exists(fs, name) THEN Result(fs, <<>>, "does not exist")
    ELSE LET agg_type == select_clause[1].func
             field_name == select_clause[1].arg
             names == GetFieldNames(fs, name)
             data == DataRows(ReadRows(fs, name))
             raw == MapRows(data, LAMBDA r : GetValues(names, r, <<Plain(field_name)>>)[1])
             values == MapRows(raw, IntOf)
             res == AggResult(agg_type, values)
         IN  IF \E i \in DOMAIN raw : raw[i] \notin IntLiterals
             THEN Result(fs, <<>>, "ValueError")
             ELSE Result(fs, <<Echo(select_clause[1])>> \o res.out, res.err)

\* where_clause.replace(alias + '.', '')
StripAlias(cond, alias) ==
    [cond EXCEPT !.lq = IF @ = alias THEN "" ELSE @,
                 !.rq = IF @ = alias THEN "" ELSE @]

\* the right reader left where the inner loop ended
RewindRightMissing(ri) == ri

\* r_csvfile.seek(0); next(r_reader): the next line read is the first data row
RewindRight(ri) == 2

RECURSIVE JoinScan(_, _, _, _, _, _, _)
JoinScan(ctx, lrows, rrows, li, ri, is_printed, acc) ==
    IF li > Len(lrows) THEN [out |-> acc, err |-> ""]
    ELSE IF ri <= Len(rrows)
    THEN LET combined_row == lrows[li] \o rrows[ri]
             s == Satisfies(ctx.names, ctx.types, combined_row, ctx.cond)
         IN  IF s = "E" THEN [out |-> acc, err |-> "record error"]
             ELSE IF s = "T"
             THEN JoinScan(ctx, lrows, rrows, li, ri + 1, TRUE,
                      Append(acc, Line(GetValues(ctx.names, combined_row, ctx.sel))))
             ELSE JoinScan(ctx, lrows, rrows, li, ri + 1, is_printed, acc)
    ELSE LET null_values == ctx.width - Len(lrows[li])
             left_join_row == lrows[li] \o [i \in 1..null_values |-> ""]
             acc2 == IF ctx.join_type = "LEFT" /\ ~is_printed
                     THEN Append(acc, Line(left_join_row))
                     ELSE acc
         IN  JoinScan(ctx, lrows, rrows, li + 1, RewindRight(ri), FALSE, acc2)

JoinSelect(fs, name, alias, select_clause, where_clause, join_type, right_table, right_table_alias) ==
    IF ~Exists(fs, name) \/ ~Exists(fs, right_table) THEN Result(fs, <<>>, "does not exist")
    ELSE IF (alias # "" \/ right_table_alias # "") /\ where_clause = NoCond
    THEN Result(fs, <<>>, "AttributeError")
    ELSE LET lrows == ReadRows(fs, name)
             rrows == ReadRows(fs, right_table)
             header == lrows[1] \o rrows[1]
             w1 == IF alias # "" THEN StripAlias(where_clause, alias) ELSE where_clause
             w2 == IF right_table_alias # "" THEN StripAlias(w1, right_table_alias) ELSE w1
             ctx == [names |-> GetFieldNames(fs, name) \o GetFieldNames(fs, right_table),
                     types |-> GetFieldTypes(fs, name) \o GetFieldTypes(fs, right_table),
                     cond |-> w2, sel |-> select_clause, join_type |-> join_type,
                     width |-> Len(header)]
             scan == JoinScan(ctx, lrows, rrows, 2, 2, FALSE, <<Line(header)>>)
         IN  Result(fs, scan.out, scan.err)

\* Table.select: the strategy is chosen by the shape of the query
\* a SELECT whose aggregate accumulates only the rows that satisfy the
\* where clause
TableSelectAggFiltered(fs, name, alias, select_clause, where_clause, join_type, right_table, right_table_alias) ==
    IF join_type # ""
    THEN JoinSelect(fs, name, alias, select_clause, where_clause, join_type,
                    right_table, right_table_alias)
    ELSE IF Len(select_clause) = 1 /\ IsAggCall(select_clause[1])
    THEN IF ~Exists(fs, name) THEN AggSelect(fs, name, select_clause)
         ELSE LET rows == ReadRows(fs, name)
                  kept == SelectSeq(DataRows(rows), LAMBDA r :
                              Satisfies(GetFieldNames(fs, name), GetFieldTypes(fs, name),
                                        r, where_clause) = "T")
                  res == AggSelect([fs EXCEPT ![name] = WriteRows(<<rows[1]>> \o kept)],
                                   name, select_clause)
              IN  Result(fs, res.out, res.err)
    ELSE SingleSelect(fs, name, select_clause, where_clause)

TableSelect(fs, name, alias, select_clause, where_clause, join_type, right_table, right_table_alias) ==
    IF join_type # ""
    THEN JoinSelect(fs, name, alias, select_clause, where_clause, join_type,
                    right_table, right_table_alias)
    ELSE IF Len(select_clause) = 1 /\ IsAggCall(select_clause[1])
    THEN AggSelect(fs, name, select_clause)
    ELSE SingleSelect(fs, name, select_clause, where_clause)

---------------------------------------------------------------------------
(* The operation last executed, with its arguments *)

NoOp == [name |-> "", table |-> "", values |-> <<>>, field |-> "", value |-> "",
         cond |-> NoCond, sel |-> <<>>, join_type |-> "", right |-> "",
         alias |-> "", ralias |-> ""]

NoStmt == [kind |-> "", type |-> "", name |-> <<>>, join_type |-> "", error |-> ""]

\* the inputs of the table engine
Conds == {NoCond, Cond("id", "=", "1"), Cond("name", "!=", "Ann")}

AggSpellings == {"COUNT", "Count", "count", "MAX", "max", "AVG", "avg"}

Call(f, a) == [func |-> f, arg |-> a]

SelectLists ==
    {Star, <<Plain("name"), Plain("id")>>, <<Call("COUNT", "name")>>}
    \cup {<<Call(f, "id")>> : f \in AggSpellings}

EngineTables == {"t"}

\* (target field, new value) pairs of UPDATE; age is in no table
UpdateTargets == {<<"id", "2">>, <<"name", "Ann">>, <<"name", "1">>, <<"age", "1">>}

\* the fields a query names exist in the table it reads (Record is only
\* defined on the fields of its row)
QueryApplies(fs, name, select_clause, where_clause) ==
    Exists(fs, name) =>
        LET names == GetFieldNames(fs, name)
        IN  /\ CondApplies(names, where_clause)
            /\ IF Len(select_clause) = 1 /\ IsAggCall(select_clause[1])
               THEN select_clause[1].arg \in Range(names)
               ELSE SelApplies(names, select_clause)

\* the effect of one executed statement
Finish(res, o) ==
    /\ files' = res.files
    /\ out' = res.out
    /\ err' = res.err
    /\ op' = o
    /\ UNCHANGED <<cmd, stmt, gtn>>

\* one statement is executed at a time: every operation starts from op = NoOp
Create ==
    /\ op = NoOp
    /\ \E name \in EngineTables, fields \in FieldLists :
          Finish(TableCreate(files, name, fields),
                 [NoOp EXCEPT !.name = "create", !.table = name, !.values = fields])

Insert ==
    /\ op = NoOp
    /\ \E name \in EngineTables, k \in InsertArities : \E values \in SeqsOfLen(Values, k) :
          /\ Exists(files, name) => Len(files[name].lines) - 1 < MaxRows
          /\ Finish(TableInsert(files, name, values),
                    [NoOp EXCEPT !.name = "insert", !.table = name, !.values = values])

Alter ==
    /\ op = NoOp
    /\ \E name \in EngineTables, new_field \in AlterFields :
          /\ Exists(files, name) => new_field \notin Range(files[name].lines[1].row)
          /\ Finish(TableAlter(files, name, new_field),
                    [NoOp EXCEPT !.name = "alter", !.table = name, !.field = new_field])

Delete ==
    /\ op = NoOp
    /\ \E name \in EngineTables, condition \in Conds :
          /\ Exists(files, name) => CondApplies(GetFieldNames(files, name), condition)
          /\ Finish(TableDelete(files, name, condition),
                    [NoOp EXCEPT !.name = "delete", !.table = name, !.cond = condition])

Update ==
    /\ op = NoOp
    /\ \E name \in EngineTables, target \in UpdateTargets, condition \in Conds :
          /\ Exists(files, name) => CondApplies(GetFieldNames(files, name), condition)
          /\ Finish(TableUpdate(files, name, target[1], target[2], condition),
                    [NoOp EXCEPT !.name = "update", !.table = name, !.field = target[1],
                                 !.value = target[2], !.cond = condition])

Drop ==
    /\ op = NoOp
    /\ \E name \in EngineTables :
          Finish(TableDrop(files, name), [NoOp EXCEPT !.name = "drop", !.table = name])

Select ==
    /\ op = NoOp
    /\ \E name \in EngineTables, select_clause \in SelectLists, where_clause \in Conds :
          /\ QueryApplies(files, name, select_clause, where_clause)
          /\ Finish(TableSelect(files, name, "", select_clause, where_clause, "", "", ""),
                    [NoOp EXCEPT !.name = "select", !.table = name, !.sel = select_clause,
                                 !.cond = where_clause])

\* the statement and what it printed are dropped before the next one is taken
Discard ==
    /\ op # NoOp
    /\ op' = NoOp
    /\ out' = <<>>
    /\ err' = ""
    /\ UNCHANGED <<files, cmd, stmt, gtn>>

Init ==
    /\ files = [n \in TableNames |-> NoFile]
    /\ out = <<>>
    /\ err = ""
    /\ op = NoOp
    /\ cmd = <<>>
    /\ stmt = NoStmt
    /\ gtn = [ret |-> "", name |-> <<>>]

Next ==
    \/ Create
    \/ Insert
    \/ Alter
    \/ Delete
    \/ Update
    \/ Drop
    \/ Select
    \/ Discard

Spec == Init /\ [][Next]_vars

---------------------------------------------------------------------------
(* Two-table queries over stored tables t (left) and u (right) *)

JoinLeftHeader == <<"id int">>

JoinRightHeader == <<"rid int", "name varchar">>

\* a file as CREATE TABLE and INSERTs leave it (eol "CRLF"), or as a later
\* rewrite leaves it (eol "LF")
StoredFile(header, data, eol) ==
    [exists |-> TRUE,
     lines |-> <<CsvLine(header, "LF")>> \o [i \in DOMAIN data |-> CsvLine(data[i], eol)]]

JoinLeftFiles ==
    {StoredFile(JoinLeftHeader, data, eol) :
        data \in SeqsUpTo({<<"1">>, <<"2">>}, MaxJoinRows), eol \in {"LF", "CRLF"}}

JoinRightFiles ==
    {NoFile} \cup
    {StoredFile(JoinRightHeader, data, "CRLF") :
        data \in SeqsUpTo({<<"1", "Ann">>, <<"2", "Ann">>}, MaxJoinRows)}

JoinConds ==
    {NoCond, Cond("rid", "=", "1"), FieldCond("", "id", "=", "", "rid"),
     FieldCond("l", "id", "=", "r", "rid")}

JoinSelectLists == {Star, <<Plain("name"), Plain("id")>>}

JoinAliases == {<<"", "">>, <<"l", "r">>}

JoinQuery ==
    /\ op = NoOp
    /\ \E select_clause \in JoinSelectLists, where_clause \in JoinConds,
          join_type \in {"INNER", "LEFT"}, a \in JoinAliases :
          /\ (Exists(files, "t") /\ Exists(files, "u")) =>
                CondApplies(GetFieldNames(files, "t") \o GetFieldNames(files, "u"),
                            StripAlias(StripAlias(where_clause, a[1]), a[2]))
          /\ Finish(TableSelect(files, "t", a[1], select_clause, where_clause, join_type,
                                "u", a[2]),
                    [NoOp EXCEPT !.name = "select", !.table = "t", !.sel = select_clause,
                                 !.cond = where_clause, !.join_type = join_type,
                                 !.right = "u", !.alias = a[1], !.ralias = a[2]])

InitJoin ==
    /\ files \in {[n \in TableNames |-> IF n = "t" THEN l ELSE r] :
                     l \in JoinLeftFiles, r \in JoinRightFiles}
    /\ out = <<>>
    /\ err = ""
    /\ op = NoOp
    /\ cmd = <<>>
    /\ stmt = NoStmt
    /\ gtn = [ret |-> "", name |-> <<>>]

NextJoin ==
    \/ JoinQuery
    \/ Discard

SpecJoin == InitJoin /\ [][NextJoin]_vars

---------------------------------------------------------------------------
(* Statements.  A command text is the sequence of its whitespace-separated  *)
(* words (str.split()); the words of a text are separated by single blanks, *)
(* so "KEYWORD " in a pattern is a word that is not the last one.           *)

\* words that do not start with two word characters (\w{2})
ShortWords == {"x", "c", "1", "2", "*", "=", ",", "(1)", "(c", "'COMMIT'"}

StartsWithTwoWordChars(word) == word \notin ShortWords

\* words made of word characters only (\w+)
IsWord(word) == word \notin {"*", "=", ",", "(1)", "(c", "int)", "'COMMIT'", "VALUES(1)"}

\* words made of word characters and commas only ([\w\s,]+)
IsFromText(word) == IsWord(word) \/ word = ","

Is(text, i, keyword) == i \in DOMAIN text /\ Upper(text[i]) = keyword

\* " KEYWORD" in a lookahead: a word that starts with the keyword
StartsWith(text, i, keyword) ==
    i \in DOMAIN text /\ (Upper(text[i]) = keyword \/ (keyword = "VALUES" /\ text[i] = "VALUES(1)"))

Contains(word, keyword) == Upper(word) = keyword \/ (keyword = "COMMIT" /\ word = "'COMMIT'")

\* re.search of the shape patterns: found anywhere in the text
IsAlterStatement(text) == \E i \in DOMAIN text : Is(text, i, "ALTER") /\ i < Len(text)

IsBeginStatement(text) == \E i \in DOMAIN text : Is(text, i, "BEGIN") /\ Is(text, i + 1, "TRANSACTION")

IsCreateStatement(text) == \E i \in DOMAIN text : Is(text, i, "CREATE") /\ i < Len(text)

IsCommitStatement(text) == \E i \in DOMAIN text : Contains(text[i], "COMMIT")

IsDeleteStatement(text) ==
    \E i \in DOMAIN text : Is(text, i, "DELETE") /\ Is(text, i + 1, "FROM") /\ i + 1 < Len(text)

IsDropStatement(text) ==
    \E i \in DOMAIN text : Is(text, i, "DROP") /\ i < Len(text) /\ StartsWithTwoWordChars(text[i + 1])

IsInsertStatement(text) ==
    \E i \in DOMAIN text : Is(text, i, "INSERT") /\ Is(text, i + 1, "INTO") /\ i + 1 < Len(text)

IsSelectStatement(text) == \E i \in DOMAIN text : Is(text, i, "SELECT") /\ i < Len(text)

IsUpdateStatement(text) ==
    \E i \in DOMAIN text : Is(text, i, "UPDATE") /\
        \E j \in DOMAIN text : j >= i + 2 /\ Is(text, j, "SET") /\ j < Len(text)

IsUseStatement(text) ==
    \E i \in DOMAIN text : Is(text, i, "USE") /\ i < Len(text) /\ StartsWithTwoWordChars(text[i + 1])

Kinds == {"Alter", "Begin", "Create", "Commit", "Delete", "Drop", "Insert", "Select",
          "Update", "Use"}

Matches(kind, text) ==
    CASE kind = "Alter" -> IsAlterStatement(text)
      [] kind = "Begin" -> IsBeginStatement(text)
      [] kind = "Create" -> IsCreateStatement(text)
      [] kind = "Commit" -> IsCommitStatement(text)
      [] kind = "Delete" -> IsDeleteStatement(text)
      [] kind = "Drop" -> IsDropStatement(text)
      [] kind = "Insert" -> IsInsertStatement(text)
      [] kind = "Select" -> IsSelectStatement(text)
      [] kind = "Update" -> IsUpdateStatement(text)
      [] kind = "Use" -> IsUseStatement(text)

\* a statement as its constructor leaves it; error names the exception the
\* constructor ended with
Stmt(kind) == [kind |-> kind, type |-> "", name |-> <<>>, join_type |-> "", error |-> ""]

Failed(kind, error) == [Stmt(kind) EXCEPT !.error = error]

First(S) == CHOOSE i \in S : \A j \in S : i <= j

Last(S) == CHOOSE i \in S : \A j \in S : i >= j

\* the words between "<A> <B> " and the last " <stop>" after them
\* ((?<=A B\s)(.*)(?=\sstop)), and <<>> with found = FALSE when nothing matches
Between(text, a, b, stop) ==
    LET starts == {i \in DOMAIN text : Is(text, i, a) /\ (b = "" \/ Is(text, i + 1, b))}
        from == IF starts = {} THEN 0 ELSE First(starts) + (IF b = "" THEN 1 ELSE 2)
        stops == {j \in DOMAIN text : j > from /\ StartsWith(text, j, stop)}
    IN  IF starts = {} \/ stops = {} THEN [found |-> FALSE, words |-> <<>>]
        ELSE [found |-> TRUE, words |-> SubSeq(text, from, Last(stops) - 1)]

\* the words after the first "<A> " ((?<=A\s)(.*))
After(text, a) ==
    LET starts == {i \in DOMAIN text : Is(text, i, a) /\ i < Len(text)}
    IN  IF starts = {} THEN [found |-> FALSE, words |-> <<>>]
        ELSE [found |-> TRUE, words |-> SubSeq(text, First(starts) + 1, Len(text))]

KEYWORDS_OBJECTS == {"DATABASE", "TABLE"}

AlterStatement(text) ==
    LET from_clause == Between(text, "ALTER", "TABLE", "ADD")
        new_field == After(text, "ADD")
    IN  IF ~from_clause.found \/ ~new_field.found THEN Failed("Alter", "AttributeError")
        ELSE [Stmt("Alter") EXCEPT !.name = from_clause.words]

BeginStatement(text) == Stmt("Begin")

CreateCorrectSize(type, num_words) ==
    CASE type = "DATABASE" -> num_words = 3
      [] type = "TABLE" -> num_words >= 3
      [] OTHER -> FALSE

CreateStatement(text) ==
    IF ~(Len(text) >= 3) THEN Failed("Create", "syntax")
    ELSE LET type == Upper(text[2])
         IN  IF ~CreateCorrectSize(type, Len(text)) THEN Failed("Create", "syntax")
             ELSE IF type \notin KEYWORDS_OBJECTS THEN Failed("Create", "invalid object")
             ELSE [Stmt("Create") EXCEPT !.type = type, !.name = <<text[3]>>]

CommitStatement(text) == Stmt("Commit")

DeleteStatement(text) ==
    LET names == {i \in DOMAIN text :
                     Is(text, i - 2, "DELETE") /\ Is(text, i - 1, "FROM") /\ IsWord(text[i])}
        condition == After(text, "WHERE")
    IN  IF names = {} \/ ~condition.found THEN Failed("Delete", "AttributeError")
        ELSE [Stmt("Delete") EXCEPT !.name = <<text[First(names)]>>]

DropStatement(text) ==
    IF Len(text) # 3 THEN Failed("Drop", "syntax")
    ELSE LET type == Upper(text[2])
         IN  IF type \notin KEYWORDS_OBJECTS THEN Failed("Drop", "invalid object")
             ELSE [Stmt("Drop") EXCEPT !.type = type, !.name = <<text[3]>>]

\* (?<=\().*(?=\)): a "(" with a ")" after it
HasValueList(text) ==
    \E i \in DOMAIN text : \E j \in DOMAIN text :
        /\ i <= j
        /\ text[i] \in {"(1)", "VALUES(1)", "(c"}
        /\ text[j] \in {"(1)", "VALUES(1)", "int)"}
        /\ i = j => text[i] # "(c"

InsertStatement(text) ==
    LET table_name == Between(text, "INSERT", "INTO", "VALUES")
    IN  IF ~table_name.found \/ ~HasValueList(text) THEN Failed("Insert", "AttributeError")
        ELSE [Stmt("Insert") EXCEPT !.name = table_name.words]

\* the FROM clause: the shortest run of words and commas after the first
\* "FROM " that ends before " ON"/" WHERE" or at the end of the text
FromClause(text) ==
    LET stops == {j \in DOMAIN text : Is(text, j, "ON") \/ Is(text, j, "WHERE")}
                 \cup {Len(text) + 1}
        ends(from) == {j \in stops : j > from /\ \A k \in from..(j - 1) : IsFromText(text[k])}
        starts == {i \in DOMAIN text : Is(text, i, "FROM") /\ i < Len(text) /\ ends(i + 1) # {}}
        from == First(starts) + 1
    IN  IF starts = {} THEN [found |-> FALSE, words |-> <<>>]
        ELSE [found |-> TRUE, words |-> SubSeq(text, from, First(ends(from)) - 1)]

IsInnerJoinAt(words, i) == Is(words, i, "INNER") /\ Is(words, i + 1, "JOIN")

IsLeftJoinAt(words, i) ==
    Is(words, i, "LEFT") /\ Is(words, i + 1, "OUTER") /\ Is(words, i + 2, "JOIN")

\* set_join_type
JoinTypeOf(words) ==
    IF \E i \in DOMAIN words : words[i] = "," \/ IsInnerJoinAt(words, i) THEN "INNER"
    ELSE IF \E i \in DOMAIN words : IsLeftJoinAt(words, i) THEN "LEFT"
    ELSE ""

\* parse_from_clause: the words before the first join keyword or comma, and
\* the words after it up to the next one
FromSplit(words) ==
    LET seps == {i \in DOMAIN words :
                    words[i] = "," \/ IsInnerJoinAt(words, i) \/ IsLeftJoinAt(words, i)}
        sepLen(i) == IF words[i] = "," THEN 1 ELSE IF IsInnerJoinAt(words, i) THEN 2 ELSE 3
        s1 == First(seps)
        rest == {i \in seps : i >= s1 + sepLen(s1)}
        rightEnd == IF rest = {} THEN Len(words) ELSE First(rest) - 1
    IN  IF seps = {} THEN [left |-> words, joined |-> FALSE, right |-> <<>>]
        ELSE [left |-> SubSeq(words, 1, s1 - 1), joined |-> TRUE,
              right |-> SubSeq(words, s1 + sepLen(s1), rightEnd)]

SelectStatement(text) ==
    LET select_clause == Between(text, "SELECT", "", "FROM")
        from_clause == FromClause(text)
        split == FromSplit(from_clause.words)
    IN  IF ~select_clause.found \/ ~from_clause.found THEN Failed("Select", "AttributeError")
        ELSE IF split.left = <<>> \/ (split.joined /\ split.right = <<>>)
        THEN Failed("Select", "IndexError")
        ELSE [Stmt("Select") EXCEPT !.name = <<split.left[1]>>,
                                    !.join_type = JoinTypeOf(from_clause.words)]

UpdateStatement(text) ==
    LET table_name == Between(text, "UPDATE", "", "SET")
        sets == {i \in DOMAIN text : Is(text, i, "SET") /\ i < Len(text)}
        target_field == \E j \in DOMAIN text : j > First(sets) + 1 /\ text[j] = "="
        eqs == {i \in DOMAIN text : text[i] = "=" /\ i < Len(text)}
        target_value == \E j \in DOMAIN text : j > First(eqs) + 1 /\ StartsWith(text, j, "WHERE")
        condition == After(text, "WHERE")
    IN  IF \/ ~table_name.found
           \/ sets = {} \/ ~target_field
           \/ eqs = {} \/ ~target_value
           \/ ~condition.found
        THEN Failed("Update", "AttributeError")
        ELSE [Stmt("Update") EXCEPT !.name = table_name.words]

UseStatement(text) ==
    IF Len(text) # 2 THEN Failed("Use", "syntax")
    ELSE [Stmt("Use") EXCEPT !.name = <<text[2]>>]

\* StatementFactory.make_statement: the first shape that matches is built
MakeStatementOf(text) ==
    IF IsAlterStatement(text) THEN AlterStatement(text)
    ELSE IF IsBeginStatement(text) THEN BeginStatement(text)
    ELSE IF IsCreateStatement(text) THEN CreateStatement(text)
    ELSE IF IsCommitStatement(text) THEN CommitStatement(text)
    ELSE IF IsDeleteStatement(text) THEN DeleteStatement(text)
    ELSE IF IsDropStatement(text) THEN DropStatement(text)
    ELSE IF IsInsertStatement(text) THEN InsertStatement(text)
    ELSE IF IsSelectStatement(text) THEN SelectStatement(text)
    ELSE IF IsUpdateStatement(text) THEN UpdateStatement(text)
    ELSE IF IsUseStatement(text) THEN UseStatement(text)
    ELSE Failed("", "not supported")

\* what get_table_name does: it returns a name, returns None, or raises
Returned(name) == [ret |-> "name", name |-> name]

ReturnedNone == [ret |-> "None", name |-> <<>>]

Raised == [ret |-> "raise", name |-> <<>>]

NotCalled == [ret |-> "", name |-> <<>>]

GetTableNameOf(s) ==
    CASE s.kind \in {"Alter", "Delete", "Insert", "Update"} -> Returned(s.name)
      [] s.kind \in {"Create", "Drop"} ->
            IF s.type = "TABLE" THEN Returned(s.name) ELSE Raised
      [] s.kind = "Select" -> IF s.join_type # "" THEN Raised ELSE Returned(s.name)
      [] OTHER -> ReturnedNone

\* the command texts: every short text over a small vocabulary, and longer
\* well-formed statements
Vocabulary == {"ALTER", "CREATE", "create", "COMMIT", "DROP", "SELECT", "USE",
               "TABLE", "table", "DATABASE", "VIEW", "tb", "x"}

Statements ==
    {<<"ALTER", "TABLE", "tb", "ADD", "c", "int">>,
     <<"CREATE", "TABLE", "tb", "(c", "int)">>,
     <<"DELETE", "FROM", "tb", "WHERE", "c", "=", "1">>,
     <<"DELETE", "FROM", "tb", "WHERE", "c", "=", "'COMMIT'">>,
     <<"INSERT", "INTO", "tb", "VALUES", "(1)">>,
     <<"INSERT", "INTO", "tb", "VALUES(1)">>,
     <<"SELECT", "*", "FROM", "tb">>,
     <<"select", "c", "from", "tb">>,
     <<"SELECT", "*", "FROM", "tb", "WHERE", "c", "=", "1">>,
     <<"SELECT", "*", "FROM", "ALTER", "WHERE", "c", "=", "1">>,
     <<"SELECT", "*", "FROM", "tb", ",", "tb2", "WHERE", "c", "=", "x">>,
     <<"SELECT", "*", "FROM", "tb", "t1", "INNER", "JOIN", "tb2", "t2", "ON", "c", "=", "x">>,
     <<"SELECT", "*", "FROM", "tb", "LEFT", "OUTER", "JOIN", "tb2", "ON", "c", "=", "x">>,
     <<"UPDATE", "tb", "SET", "c", "=", "1", "WHERE", "c", "=", "2">>,
     <<"BEGIN", "TRANSACTION">>,
     <<"USE", "db">>,
     <<"CREATE", "DATABASE", "db">>,
     <<"DROP", "DATABASE", "db">>,
     <<"DROP", "TABLE", "tb">>}

Commands == (SeqsUpTo(Vocabulary, MaxTokens) \ {<<>>}) \cup Statements

MakeStatement ==
    /\ cmd # <<>>
    /\ stmt = NoStmt
    /\ stmt' = MakeStatementOf(cmd)
    /\ UNCHANGED <<files, out, err, op, cmd, gtn>>

GetTableName ==
    /\ stmt.kind # "" /\ stmt.error = ""
    /\ gtn = NotCalled
    /\ gtn' = GetTableNameOf(stmt)
    /\ UNCHANGED <<files, out, err, op, cmd, stmt>>

InitStmt ==
    /\ files = [n \in TableNames |-> NoFile]
    /\ out = <<>>
    /\ err = ""
    /\ op = NoOp
    /\ cmd \in Commands
    /\ stmt = NoStmt
    /\ gtn = NotCalled

NextStmt ==
    \/ MakeStatement
    \/ GetTableName

SpecStmt == InitStmt /\ [][NextStmt]_vars

---------------------------------------------------------------------------
(* set_table_name, get_table_name and execute of a built statement *)

\* the names set_table_name is called with
NewNames == {<<"n">>, <<"tb2">>}

\* set_table_name of each Statement class; SelectStatement's only compares
\* (left_table_name == new_name), and only when there is a join
SetTableNameOf(s, new_name) ==
    CASE s.kind \in {"Alter", "Delete", "Insert", "Update"} -> [s EXCEPT !.name = new_name]
      [] s.kind \in {"Create", "Drop"} ->
            IF s.type = "TABLE" THEN [s EXCEPT !.name = new_name] ELSE s
      [] s.kind = "Select" -> s
      [] OTHER -> s

\* the table execute() constructs its Table for
ExecuteTableOf(s) == s.name

\* os.path.exists(name) for a table name a statement carries
TargetExists(fs, name) == name \in {<<n>> : n \in DOMAIN fs} /\ Exists(fs, name[1])

SetTableName ==
    /\ stmt.kind # "" /\ stmt.error = ""
    /\ op = NoOp
    /\ \E new_name \in NewNames :
          /\ stmt' = SetTableNameOf(stmt, new_name)
          /\ op' = [NoOp EXCEPT !.name = "set_table_name", !.value = new_name]
    /\ UNCHANGED <<files, out, err, cmd, gtn>>

\* execute() of the statements that address one table, except CREATE: each
\* calls a Table method that starts with _check_table_exists, and no table
\* file exists here, so the method ends there, naming the table it was
\* called for
Execute ==
    /\ stmt.kind # "" /\ stmt.error = ""
    /\ op.name # "execute"
    /\ \/ stmt.kind \in {"Alter", "Delete", "Insert", "Update"}
       \/ stmt.kind = "Drop" /\ stmt.type = "TABLE"
       \/ stmt.kind = "Select" /\ stmt.join_type = ""
    /\ ~TargetExists(files, ExecuteTableOf(stmt))
    /\ op' = [NoOp EXCEPT !.name = "execute", !.table = ExecuteTableOf(stmt)]
    /\ err' = "does not exist"
    /\ UNCHANGED <<files, out, cmd, stmt, gtn>>

NextName ==
    \/ MakeStatement
    \/ SetTableName
    \/ GetTableName
    \/ Execute

SpecName == InitStmt /\ [][NextName]_vars

---------------------------------------------------------------------------
(* Properties of the table engine *)

Header(fs, name) == ReadRows(fs, name)[1]

Data(fs, name) == DataRows(ReadRows(fs, name))

Lines(rows) == [i \in DOMAIN rows |-> Line(rows[i])]

Did(name) == op.name = name /\ err = ""

\* the step that executes a successful operation called name
Does(name) == op = NoOp /\ op'.name = name /\ err' = ""

\* the last line of the table was appended by INSERT and not rewritten since
InsertedLast(fs, name) ==
    /\ Exists(fs, name)
    /\ Len(fs[name].lines) >= 2
    /\ fs[name].lines[Len(fs[name].lines)].eol = "CRLF"

InsertAppends ==
    Does("insert") =>
        /\ Len(op'.values) = Len(Header(files, op'.table))
        /\ Header(files', op'.table) = Header(files, op'.table)
        /\ Data(files', op'.table) = Append(Data(files, op'.table), op'.values)

SelectAllAfterInsert(header_cells(_)) ==
    (/\ Does("select") /\ op'.sel = Star /\ op'.cond = NoCond /\ op'.join_type = ""
     /\ InsertedLast(files, op'.table))
    => out' = <<Line(MapRows(Header(files, op'.table), header_cells))>>
              \o Lines(Data(files, op'.table))

\* C1 (as claimed): after a successful INSERT of values v into a table holding
\* rows R, SELECT * without condition emits the field NAMES joined by '|'
\* (id|name) and then one line per stored row, R in order followed by v.
C1_AsClaimed == [][InsertAppends /\ SelectAllAfterInsert(Split0)]_vars

Whole(cell) == cell

\* C1 (amended): after a successful INSERT of values v into a table holding
\* rows R, SELECT * without condition emits one header line made of the stored
\* header cells "<name> <type>" joined by '|' (id int|name varchar) and then
\* exactly one line per stored row, R in its previous order followed by v last.
C1_InsertThenSelectAll == [][InsertAppends /\ SelectAllAfterInsert(Whole)]_vars

C1_Witness ==
    /\ Did("select") /\ op.sel = Star /\ op.cond = NoCond
    /\ InsertedLast(files, "t")
    /\ out = <<Line(<<"id int", "name varchar">>), Line(<<"2", "Ann">>), Line(<<"1", "Ann">>)>>

\* C2: an operation of the table engine that ends in an error leaves the set
\* of table files and the content of every file exactly as they were (wrong
\* INSERT arity, unknown UPDATE field, any operation on a missing table, which
\* is not created, and CREATE TABLE on an existing table, which is not
\* truncated).
C2_ErrorLeavesFilesUnchanged == [][(op = NoOp /\ err' # "") => files' = files]_vars

C2_Witness ==
    /\ op.name = "create" /\ err = "already exists"
    /\ Len(files["t"].lines) = 3
    /\ Header(files, "t") # op.values

Keeps(fs, name, condition) ==
    SelectSeq(Data(fs, name),
        LAMBDA r : Satisfies(GetFieldNames(fs, name), GetFieldTypes(fs, name), r, condition) = "F")

\* the stored lines after the header line, each with its line terminator
DataSection(fs, name) == Tail(fs[name].lines)

\* C3 (as claimed): a successful DELETE with condition c leaves the header
\* row unchanged, keeps exactly the previous rows that do not satisfy c, in
\* order, and reports the number of rows removed; when c matches no row the
\* data section of the file after DELETE is identical to the data section
\* before it and the report is "0 records deleted".
C3_AsClaimed ==
    [][Does("delete") =>
        LET t == op'.table
        IN  /\ Header(files', t) = Header(files, t)
            /\ Data(files', t) = Keeps(files, t, op'.cond)
            /\ (Keeps(files, t, op'.cond) = Data(files, t)) =>
                  /\ DataSection(files', t) = DataSection(files, t)
                  /\ out' = <<Status("records deleted.", 0)>>]_vars

\* C3 (rows as parsed): a successful DELETE with condition c leaves the header
\* row unchanged; the data rows afterwards, as the reader parses them, are
\* exactly the previous rows that do not satisfy c, in their previous order
\* with their values unchanged; the reported count is the number of rows
\* removed; when no row satisfies c the parsed rows are the same as before
\* and the report is "0 records deleted".
C3_DeleteKeepsOthers ==
    [][Does("delete") =>
        LET t == op'.table
            removed == Len(Data(files, t)) - Len(Data(files', t))
        IN  /\ Header(files', t) = Header(files, t)
            /\ Data(files', t) = Keeps(files, t, op'.cond)
            /\ out' = <<Status(IF removed = 1 THEN "record deleted." ELSE "records deleted.",
                               removed)>>
            /\ (Keeps(files, t, op'.cond) = Data(files, t)) =>
                  /\ Data(files', t) = Data(files, t)
                  /\ out' = <<Status("records deleted.", 0)>>]_vars

C3_Witness ==
    /\ Did("delete") /\ op.cond = Cond("id", "=", "1")
    /\ out = <<Status("record deleted.", 1)>>
    /\ Data(files, "t") = <<<<"2", "Ann">>>>

RECURSIVE Flatten(_)
Flatten(blocks) == IF blocks = <<>> THEN <<>> ELSE Head(blocks) \o Flatten(Tail(blocks))

\* the condition of a two-table query as the rows are tested against it
JoinCond(o) == StripAlias(StripAlias(o.cond, o.alias), o.ralias)

\* what the query o must emit for left row l over the right data rows
JoinBlock(o, names, types, l, rdata, rwidth) ==
    LET matching == SelectSeq(rdata, LAMBDA r : Satisfies(names, types, l \o r, JoinCond(o)) = "T")
    IN  IF matching # <<>>
        THEN [i \in DOMAIN matching |-> Line(GetValues(names, l \o matching[i], o.sel))]
        ELSE IF o.join_type = "LEFT"
             THEN <<Line(l \o [i \in 1..rwidth |-> ""])>>
             ELSE <<>>

\* C4: a two-table SELECT emits, after the header, for every left row in
\* order (each compared with every right data row, never with the right
\* header) one line per right row whose combined record satisfies the
\* condition, in right-table order; under LEFT a left row without a match
\* gives exactly one line, its values padded with one empty string per right
\* column, and a left row with a match gives no padded line; under INNER a
\* left row without a match gives no line.
C4_JoinNestedLoop ==
    (Did("select") /\ op.join_type # "") =>
        LET names == GetFieldNames(files, "t") \o GetFieldNames(files, "u")
            types == GetFieldTypes(files, "t") \o GetFieldTypes(files, "u")
            ldata == Data(files, "t")
            blocks == [i \in DOMAIN ldata |->
                          JoinBlock(op, names, types, ldata[i], Data(files, "u"),
                                    Len(Header(files, "u")))]
        IN  out = <<Line(Header(files, "t") \o Header(files, "u"))>> \o Flatten(blocks)

C4_Witness ==
    /\ Did("select") /\ op.join_type = "LEFT" /\ op.sel = Star
    /\ op.cond = FieldCond("l", "id", "=", "r", "rid")
    /\ Data(files, "t") = <<<<"2">>, <<"1">>>>
    /\ Data(files, "u") = <<<<"1", "Ann">>, <<"1", "Ann">>>>
    /\ out = <<Line(<<"id int", "rid int", "name varchar">>), Line(<<"2", "", "">>),
               Line(<<"1", "1", "Ann">>), Line(<<"1", "1", "Ann">>)>>

AggCase(o) ==
    /\ o.name = "select" /\ o.join_type = "" /\ Len(o.sel) = 1
    /\ o.sel[1].func \in {"COUNT", "MAX", "AVG"}
    /\ Exists(files, o.table)

AggColumn(o) ==
    LET names == GetFieldNames(files, o.table)
    IN  MapRows(Data(files, o.table), LAMBDA r : r[IndexOf(names, o.sel[1].arg)])

IsScalar(e) == e.kind \in {"int", "float"}

AggExpected(func, ints) ==
    CASE func = "COUNT" -> IntScalar(Len(ints))
      [] func = "MAX" -> IntScalar(CHOOSE m \in Range(ints) : \A x \in Range(ints) : m >= x)
      [] func = "AVG" -> FloatScalar(Sum(ints), Len(ints))

AggEmits(o) ==
    /\ err = ""
    /\ out = <<Echo(o.sel[1]), AggExpected(o.sel[1].func, MapRows(AggColumn(o), IntOf))>>

AggOnEmpty(o) ==
    (Data(files, o.table) = <<>> /\ o.sel[1].func \in {"AVG", "MAX"}) =>
        /\ err # ""
        /\ \A i \in DOMAIN out : ~IsScalar(out[i])

\* C5 (as claimed): an aggregate SELECT over a table with at least one data
\* row emits COUNT = number of rows, MAX = largest value of the field, AVG =
\* sum/count; over zero rows AVG and MAX end in an error and emit no scalar.
C5_AsClaimed ==
    AggCase(op) =>
        /\ Data(files, op.table) # <<>> => AggEmits(op)
        /\ AggOnEmpty(op)

\* C5 (amended): an aggregate SELECT COUNT/MAX/AVG(field) over a table with at
\* least one data row, every row holding an integer in the named field, emits
\* COUNT = number of rows, MAX = largest value, AVG = sum/count as a float; if
\* some row's value in the field is not an integer the SELECT ends in an error
\* and emits nothing; over zero rows AVG and MAX end in an error and emit no
\* scalar (COUNT emits 0).
C5_AggregateOverIntegers ==
    AggCase(op) =>
        /\ (Data(files, op.table) # <<>> /\ Range(AggColumn(op)) \subseteq IntLiterals)
              => AggEmits(op)
        /\ ~(Range(AggColumn(op)) \subseteq IntLiterals) => (err # "" /\ out = <<>>)
        /\ AggOnEmpty(op)

C5_Witness ==
    /\ Did("select") /\ op.sel = <<Call("AVG", "id")>>
    /\ AggColumn(op) = <<"1", "2">>
    /\ out = <<Echo(Call("AVG", "id")), FloatScalar(3, 2)>>

RowsMatchHeader(fs) ==
    \A n \in TableNames : Exists(fs, n) =>
        \A i \in DOMAIN ReadRows(fs, n) : Len(ReadRows(fs, n)[i]) = Len(Header(fs, n))

\* C6: after any sequence of successful or failed CREATE TABLE, INSERT,
\* ALTER, UPDATE and DELETE, every stored data row has as many values as the
\* header has fields; ALTER appends the new field to the header and one empty
\* value to every row already stored, and an INSERT succeeds only with as
\* many values as the header then has fields.
C6_ValueCountIsFieldCount ==
    [][/\ RowsMatchHeader(files')
       /\ Does("alter") =>
             /\ Header(files', op'.table) = Append(Header(files, op'.table), op'.field)
             /\ Data(files', op'.table) =
                   MapRows(Data(files, op'.table), LAMBDA r : Append(r, ""))
       /\ Does("insert") => Len(op'.values) = Len(Header(files, op'.table))]_vars

C6_Witness ==
    /\ Did("insert") /\ op.values = <<"2", "Ann">>
    /\ Header(files, "t") = <<"id int", "name varchar">>
    /\ Data(files, "t") = <<<<"1", "">>, <<"2", "Ann">>>>

\* C10: whenever a SELECT is routed to the aggregate strategy (FUNC(field),
\* FUNC spelled COUNT, MAX or AVG in any letter case) over a table with at
\* least one row of integers, the scalar result is emitted, the same for
\* count(f), Count(f) and COUNT(f).
C10_AggregateAnyCase ==
    (/\ op.name = "select" /\ op.join_type = "" /\ Len(op.sel) = 1 /\ IsAggCall(op.sel[1])
     /\ Exists(files, op.table)
     /\ Data(files, op.table) # <<>>
     /\ Range(AggColumn(op)) \subseteq IntLiterals)
    => /\ err = ""
       /\ out = <<Echo(op.sel[1]),
                  AggExpected(Upper(op.sel[1].func), MapRows(AggColumn(op), IntOf))>>

\* the row UPDATE must store for row r of table t
UpdatedRow(fs, t, o, r) ==
    LET names == GetFieldNames(fs, t)
    IN  IF Satisfies(names, GetFieldTypes(fs, t), r, o.cond) = "T"
        THEN [k \in DOMAIN r |-> IF names[k] = o.field THEN o.value ELSE r[k]]
        ELSE r

\* C11: a successful UPDATE(field, new_value, condition), field in the
\* schema, leaves the header, the number of data rows and their order
\* unchanged; every row that satisfies the condition has the target field set
\* to new_value and its other fields unchanged; every other row is unchanged;
\* the reported count is the number of rows that satisfied the condition.
C11_UpdateFrame ==
    [][Does("update") =>
        LET t == op'.table
            before == Data(files, t)
            after == Data(files', t)
            hits == {i \in DOMAIN before :
                        Satisfies(GetFieldNames(files, t), GetFieldTypes(files, t),
                                  before[i], op'.cond) = "T"}
        IN  /\ op'.field \in Range(GetFieldNames(files, t))
            /\ Header(files', t) = Header(files, t)
            /\ Len(after) = Len(before)
            /\ \A i \in DOMAIN before : after[i] = UpdatedRow(files, t, op', before[i])
            /\ out' = <<Status(IF Cardinality(hits) = 1 THEN "record modified."
                                                         ELSE "records modified.",
                               Cardinality(hits))>>]_vars

C11_Witness ==
    /\ Did("update") /\ op.field = "name" /\ op.value = "1"
    /\ op.cond = Cond("id", "=", "1")
    /\ Data(files, "t") = <<<<"1", "1">>, <<"2", "Ann">>>>
    /\ out = <<Status("record modified.", 1)>>

\* C12: a join-free SELECT COUNT/MAX/AVG(field) accumulates every data row
\* of the table: what it emits (and the error it ends with) is what the same
\* query emits without a WHERE condition, whatever the WHERE condition is,
\* and over integer values the result counts every row, also the rows that do
\* not satisfy the condition.
C12_AggregateIgnoresWhere ==
    [][(/\ op = NoOp /\ op'.name = "select" /\ op'.join_type = ""
        /\ Len(op'.sel) = 1 /\ IsAggCall(op'.sel[1])
        /\ Exists(files, op'.table))
       => LET unconditional == TableSelect(files, op'.table, "", op'.sel, NoCond, "", "", "")
              column == MapRows(Data(files, op'.table), LAMBDA r :
                            r[IndexOf(GetFieldNames(files, op'.table), op'.sel[1].arg)])
          IN  /\ out' = unconditional.out
              /\ err' = unconditional.err
              /\ files' = files
              /\ (/\ op'.sel[1].func \in {"COUNT", "MAX", "AVG"}
                  /\ column # <<>>
                  /\ Range(column) \subseteq IntLiterals)
                 => out' = <<Echo(op'.sel[1]),
                             AggExpected(op'.sel[1].func, MapRows(column, IntOf))>>]_vars

C12_Witness ==
    /\ Did("select") /\ op.sel = <<Call("MAX", "id")>>
    /\ op.cond = Cond("id", "=", "1")
    /\ Data(files, "t") = <<<<"1", "Ann">>, <<"2", "Ann">>>>
    /\ out = <<Echo(Call("MAX", "id")), IntScalar(2)>>

---------------------------------------------------------------------------
(* Properties of the statements *)

\* the statement kind whose keyword(s) the text begins with
LeadingKind(text) ==
    CASE Is(text, 1, "ALTER") -> "Alter"
      [] Is(text, 1, "BEGIN") /\ Is(text, 2, "TRANSACTION") -> "Begin"
      [] Is(text, 1, "CREATE") -> "Create"
      [] Is(text, 1, "COMMIT") -> "Commit"
      [] Is(text, 1, "DELETE") /\ Is(text, 2, "FROM") -> "Delete"
      [] Is(text, 1, "DROP") -> "Drop"
      [] Is(text, 1, "INSERT") /\ Is(text, 2, "INTO") -> "Insert"
      [] Is(text, 1, "SELECT") -> "Select"
      [] Is(text, 1, "UPDATE") -> "Update"
      [] Is(text, 1, "USE") -> "Use"
      [] OTHER -> ""

\* C7: a command that begins with the keyword of a supported statement kind
\* (and has that kind's shape) is built as that kind, and no other kind's
\* shape predicate matches it, also when another kind's keyword occurs later
\* in the text.
C7_AsClaimed ==
    (stmt # NoStmt /\ LeadingKind(cmd) # "" /\ Matches(LeadingKind(cmd), cmd)) =>
        /\ stmt.kind = LeadingKind(cmd)
        /\ {k \in Kinds : Matches(k, cmd)} = {LeadingKind(cmd)}

SingleTableStatement(s) ==
    \/ s.kind \in {"Alter", "Delete", "Insert", "Update"}
    \/ s.kind \in {"Create", "Drop"} /\ s.type = "TABLE"
    \/ s.kind = "Select" /\ s.join_type = ""

DatabaseOrJoinStatement(s) ==
    \/ s.kind \in {"Create", "Drop"} /\ s.type = "DATABASE"
    \/ s.kind = "Use"
    \/ s.kind = "Select" /\ s.join_type # ""

\* C8: get_table_name returns the target table's name for ALTER, CREATE
\* TABLE, DROP TABLE, DELETE, INSERT, UPDATE and join-free SELECT, and ends
\* in an error (never a name, never None) for CREATE DATABASE, DROP DATABASE,
\* USE and every SELECT with a join.
C8_AsClaimed ==
    gtn # NotCalled =>
        /\ SingleTableStatement(stmt) => (gtn.ret = "name" /\ gtn.name = stmt.name)
        /\ (cmd \in Statements /\ SingleTableStatement(stmt)) => gtn.name = <<"tb">>
        /\ DatabaseOrJoinStatement(stmt) => gtn.ret = "raise"

ObjectKindIsInvalid(text) == Upper(text[2]) \notin {"DATABASE", "TABLE"}

\* C9: CREATE with at least 3 words, or DROP with exactly 3 words, whose
\* second word is neither DATABASE nor TABLE is rejected with the
\* invalid-object-type error; the size (syntax) error is raised only when the
\* number of words is wrong for the kind.
C9_AsClaimed ==
    (stmt # NoStmt /\ stmt.kind = LeadingKind(cmd)) =>
        /\ (stmt.kind = "Create" /\ Len(cmd) >= 3 /\ ObjectKindIsInvalid(cmd))
              => stmt.error = "invalid object"
        /\ (stmt.kind = "Drop" /\ Len(cmd) = 3 /\ ObjectKindIsInvalid(cmd))
              => stmt.error = "invalid object"
        /\ (stmt.kind = "Create" /\ stmt.error = "syntax")
              => (Len(cmd) < 3 \/ (Upper(cmd[2]) = "DATABASE" /\ Len(cmd) # 3))
        /\ (stmt.kind = "Drop" /\ stmt.error = "syntax") => Len(cmd) # 3

\* C13: for every statement that addresses a single table (ALTER, CREATE
\* TABLE, DROP TABLE, DELETE, INSERT, UPDATE, SELECT without a join),
\* set_table_name(n) followed by get_table_name() returns n and a later
\* execute() operates on table n; for CREATE/DROP DATABASE set_table_name
\* leaves the object name unchanged.
C13_AsClaimed ==
    [][/\ (/\ op.name = "set_table_name" /\ SingleTableStatement(stmt)
           /\ gtn = NotCalled /\ gtn' # NotCalled)
          => gtn' = Returned(op.value)
       /\ (/\ op.name = "set_table_name" /\ SingleTableStatement(stmt)
           /\ op'.name = "execute")
          => op'.table = op.value
       /\ (/\ op'.name = "set_table_name" /\ op.name # "set_table_name"
           /\ stmt.kind \in {"Create", "Drop"} /\ stmt.type = "DATABASE")
          => stmt'.name = stmt.name]_vars

===========================================================================
